---- MODULE Spec2Model ----
(***************************************************************************)
(* Model of lib/Utils/ios-webview-helper.js: createWebviewButton and       *)
(* createIOSWebviewMessage.  JavaScript values are tagged records; an      *)
(* object keeps its properties as a sequence of key/value entries in       *)
(* insertion order; a string holding JSON text is the sequence of its      *)
(* lexical tokens, so that JSON.stringify and JSON.parse are a real        *)
(* serializer and a real parser.                                           *)
(***************************************************************************)
EXTENDS Integers, Sequences, FiniteSets, TLC

VARIABLES pc, options, made, result

vars == <<pc, options, made, result>>

\* ------------------------------------------------------------ bounds

\* Longest button array the caller builds before the call.
MaxButtons == 2

\* ------------------------------------------------------ JavaScript values

Undefined == [t |-> "undefined"]

Null == [t |-> "null"]

Bool(b) == [t |-> "bool", b |-> b]

Num(n) == [t |-> "num", n |-> n]

BigInt(n) == [t |-> "bigint", n |-> n]

\* An ordinary string, known by its content.
Str(s) == [t |-> "str", s |-> s]

\* A string known by its JSON lexemes.
Text(toks) == [t |-> "text", toks |-> toks]

Arr(e) == [t |-> "arr", e |-> e]

Obj(kv) == [t |-> "obj", kv |-> kv]

KV(k, v) == [k |-> k, v |-> v]

IsObj(v) == v.t = "obj"

IsArr(v) == v.t = "arr"

Keys(o) == {o.kv[i].k : i \in DOMAIN o.kv}

HasKey(o, k) == IsObj(o) /\ k \in Keys(o)

\* o[k]: a property read; a missing property reads as undefined, and so
\* does any property of a primitive in this model's universe.
Get(o, k) ==
    IF HasKey(o, k)
    THEN LET i == CHOOSE j \in DOMAIN o.kv : o.kv[j].k = k IN o.kv[i].v
    ELSE Undefined

\* o[k] = v: an existing property keeps its position, a new one is appended.
SetKey(o, k, v) ==
    IF HasKey(o, k)
    THEN Obj([i \in DOMAIN o.kv |-> IF o.kv[i].k = k THEN KV(k, v) ELSE o.kv[i]])
    ELSE Obj(Append(o.kv, KV(k, v)))

\* ToBoolean
Truthy(v) ==
    CASE v.t = "undefined" -> FALSE
      [] v.t = "null" -> FALSE
      [] v.t = "bool" -> v.b
      [] v.t = "num" -> v.n # 0
      [] v.t = "bigint" -> v.n # 0
      [] v.t = "str" -> v.s # ""
      [] v.t = "text" -> v.toks # <<>>
      [] OTHER -> TRUE

\* a || b
Or(a, b) == IF Truthy(a) THEN a ELSE b

\* a destructuring default: { k = d } = o
Default(v, d) == IF v = Undefined THEN d ELSE v

\* v !== undefined ? v : d
IfDefined_Falsy(v, d) == IF Truthy(v) THEN v ELSE d

IfDefined(v, d) == IF v # Undefined THEN v ELSE d

\* ------------------------------------------------------------ JSON

Punct(c) == [k |-> "punct", s |-> c]

StrTok(v) == [k |-> "string", v |-> v]

LitTok(s) == [k |-> "literal", s |-> s]

NumTok(n) == [k |-> "number", n |-> n]

\* A lexeme that is no JSON token.
WordTok(s) == [k |-> "word", s |-> s]

RECURSIVE Serializable(_)
\* JSON.stringify throws a TypeError on a BigInt.
Serializable(v) ==
    CASE v.t = "bigint" -> FALSE
      [] v.t = "obj" -> \A i \in DOMAIN v.kv : Serializable(v.kv[i].v)
      [] v.t = "arr" -> \A i \in DOMAIN v.e : Serializable(v.e[i])
      [] OTHER -> TRUE

RECURSIVE Serialize(_)
RECURSIVE SerializeMembers(_, _)
RECURSIVE SerializeElements(_, _)
\* The tokens JSON.stringify writes for a value.
Serialize(v) ==
    CASE v.t = "null" -> <<LitTok("null")>>
      [] v.t = "bool" -> <<LitTok(IF v.b THEN "true" ELSE "false")>>
      [] v.t = "num" -> <<NumTok(v.n)>>
      [] v.t = "str" -> <<StrTok(v)>>
      [] v.t = "text" -> <<StrTok(v)>>
      [] v.t = "arr" -> <<Punct("[")>> \o SerializeElements(v.e, TRUE) \o <<Punct("]")>>
      [] v.t = "obj" -> <<Punct("{")>> \o SerializeMembers(v.kv, TRUE) \o <<Punct("}")>>
      [] OTHER -> <<>>

\* A property whose value is undefined is left out.
SerializeMembers(kv, first) ==
    IF kv = <<>> THEN <<>>
    ELSE IF Head(kv).v = Undefined THEN SerializeMembers(Tail(kv), first)
    ELSE (IF first THEN <<>> ELSE <<Punct(",")>>)
         \o <<StrTok(Str(Head(kv).k)), Punct(":")>>
         \o Serialize(Head(kv).v)
         \o SerializeMembers(Tail(kv), FALSE)

\* An array element that is undefined is written as null.
SerializeElements(e, first) ==
    IF e = <<>> THEN <<>>
    ELSE (IF first THEN <<>> ELSE <<Punct(",")>>)
         \o (IF Head(e) = Undefined THEN <<LitTok("null")>> ELSE Serialize(Head(e)))
         \o SerializeElements(Tail(e), FALSE)

\* JSON.stringify(v) of an object or array that can be serialized.
JSONstringify(v) == Text(Serialize(v))

Fail == [ok |-> FALSE, v |-> Undefined, next |-> 0]

Parsed(v, next) == [ok |-> TRUE, v |-> v, next |-> next]

IsPunct(toks, i, c) == i <= Len(toks) /\ toks[i] = Punct(c)

RECURSIVE ParseValue(_, _)
RECURSIVE ParseMembers(_, _, _)
RECURSIVE ParseElements(_, _, _)
\* The JSON value that starts at token i, and the position after it.
ParseValue(toks, i) ==
    IF i > Len(toks) THEN Fail
    ELSE LET tok == toks[i] IN
         CASE tok.k = "string" -> Parsed(tok.v, i + 1)
           [] tok.k = "number" -> Parsed(Num(tok.n), i + 1)
           [] tok.k = "literal" ->
                (CASE tok.s = "null" -> Parsed(Null, i + 1)
                   [] tok.s = "true" -> Parsed(Bool(TRUE), i + 1)
                   [] tok.s = "false" -> Parsed(Bool(FALSE), i + 1)
                   [] OTHER -> Fail)
           [] tok = Punct("{") ->
                IF IsPunct(toks, i + 1, "}") THEN Parsed(Obj(<<>>), i + 2)
                ELSE ParseMembers(toks, i + 1, Obj(<<>>))
           [] tok = Punct("[") ->
                IF IsPunct(toks, i + 1, "]") THEN Parsed(Arr(<<>>), i + 2)
                ELSE ParseElements(toks, i + 1, <<>>)
           [] OTHER -> Fail

ParseMembers(toks, i, acc) ==
    IF i + 1 > Len(toks) \/ toks[i].k # "string" \/ toks[i].v.t # "str"
       \/ ~IsPunct(toks, i + 1, ":")
    THEN Fail
    ELSE LET r == ParseValue(toks, i + 2) IN
         IF ~r.ok THEN Fail
         ELSE LET acc2 == SetKey(acc, toks[i].v.s, r.v) IN
              IF IsPunct(toks, r.next, "}") THEN Parsed(acc2, r.next + 1)
              ELSE IF IsPunct(toks, r.next, ",") THEN ParseMembers(toks, r.next + 1, acc2)
              ELSE Fail

ParseElements(toks, i, acc) ==
    LET r == ParseValue(toks, i) IN
    IF ~r.ok THEN Fail
    ELSE LET acc2 == Append(acc, r.v) IN
         IF IsPunct(toks, r.next, "]") THEN Parsed(Arr(acc2), r.next + 1)
         ELSE IF IsPunct(toks, r.next, ",") THEN ParseElements(toks, r.next + 1, acc2)
         ELSE Fail

\* JSON.parse(v): ok is FALSE where it throws a SyntaxError.  An argument
\* that is no string is converted to one first: null and the booleans and
\* numbers then parse to themselves, undefined does not parse.  None of the
\* ordinary strings of this model is a JSON text.
JSONparse(v) ==
    CASE v.t = "text" ->
            LET r == ParseValue(v.toks, 1) IN
            IF r.ok /\ r.next = Len(v.toks) + 1 THEN r ELSE Fail
      [] v.t \in {"null", "bool", "num"} -> Parsed(v, 0)
      [] OTHER -> Fail

\* ------------------------------------------------ createWebviewButton

\* createWebviewButton(options), options an object.
createWebviewButton(o) ==
    LET text == Get(o, "text")
        url == Get(o, "url")
        landingPageUrl == Get(o, "landingPageUrl")
        webviewInteraction == Default(Get(o, "webviewInteraction"), Bool(TRUE))
        paymentLinkPreview == Default(Get(o, "paymentLinkPreview"), Bool(FALSE))
        webviewPresentation == Default(Get(o, "webviewPresentation"), Null)
    IN Obj(<<KV("type", Str("webview")),
             KV("displayText", text),
             KV("url", url),
             KV("landingPageUrl", Or(landingPageUrl, url)),
             KV("webviewInteraction", webviewInteraction),
             KV("paymentLinkPreview", paymentLinkPreview),
             KV("webviewPresentation", webviewPresentation)>>)

\* -------------------------------------------- createIOSWebviewMessage

\* const { buttons = [] } = options
buttonsOf_NoDefault(o) == Get(o, "buttons")

buttonsOf(o) == Default(Get(o, "buttons"), Arr(<<>>))

\* button.type === 'webview' || button.name === 'cta_url'
isUrlButton_TypeOnly(button) == Get(button, "type") = Str("webview")

isUrlButton(button) ==
    Get(button, "type") = Str("webview") \/ Get(button, "name") = Str("cta_url")

\* const buttonParams = { ... }
buttonParamsOf_NoFallback(button) ==
    Obj(<<KV("display_text", Or(Get(button, "displayText"), Get(button, "text"))),
          KV("url", Get(button, "url")),
          KV("webview_presentation", Or(Get(button, "webviewPresentation"), Null)),
          KV("payment_link_preview", IfDefined(Get(button, "paymentLinkPreview"), Bool(FALSE))),
          KV("landing_page_url", Get(button, "landingPageUrl")),
          KV("webview_interaction", IfDefined(Get(button, "webviewInteraction"), Bool(TRUE)))>>)

buttonParamsOf(button) ==
    Obj(<<KV("display_text", Or(Get(button, "displayText"), Get(button, "text"))),
          KV("url", Get(button, "url")),
          KV("webview_presentation", Or(Get(button, "webviewPresentation"), Null)),
          KV("payment_link_preview", IfDefined(Get(button, "paymentLinkPreview"), Bool(FALSE))),
          KV("landing_page_url", Or(Get(button, "landingPageUrl"), Get(button, "url"))),
          KV("webview_interaction", IfDefined(Get(button, "webviewInteraction"), Bool(TRUE)))>>)

\* The callback of buttons.map: one processed button.
processButton_KeepSupplied(button) ==
    IF isUrlButton(button)
    THEN Obj(<<KV("name", Str("cta_url")),
               KV("buttonParamsJson",
                  IF HasKey(button, "buttonParamsJson")
                  THEN Get(button, "buttonParamsJson")
                  ELSE JSONstringify(buttonParamsOf(button)))>>)
    ELSE button

processButton(button) ==
    IF isUrlButton(button)
    THEN Obj(<<KV("name", Str("cta_url")),
               KV("buttonParamsJson", JSONstringify(buttonParamsOf(button)))>>)
    ELSE button

processedButtonsOf(buttons) == [i \in DOMAIN buttons |-> processButton(buttons[i])]

isCtaUrl(btn) == Get(btn, "name") = Str("cta_url")

\* processedButtons.filter(btn => btn.name === 'cta_url')
urlButtonsOf(processedButtons) == SelectSeq(processedButtons, isCtaUrl)

\* The try block of the tapTargetList callback takes its catch branch when
\* JSON.parse throws, or when it returns null and the property read throws.
parseFails(button) ==
    LET p == JSONparse(Get(button, "buttonParamsJson"))
    IN ~p.ok \/ p.v = Null

\* As if the try block declared its own canonicalUrl.
canonicalUrlOf_Shadowed(button) == Str("")

canonicalUrlOf(button) ==
    IF parseFails(button) THEN Str("")
    ELSE LET buttonParams == JSONparse(Get(button, "buttonParamsJson")).v
         IN Or(Or(Get(buttonParams, "url"), Get(buttonParams, "landing_page_url")), Str(""))

\* The callback of urlButtons.map; index counts from 0.
tapTargetOf(button, index) ==
    Obj(<<KV("canonical_url", canonicalUrlOf(button)),
          KV("url_type", Str("STATIC")),
          KV("button_index", Num(index)),
          KV("tap_target_format", Num(1))>>)

\* The position (from 0) among all of processedButtons of the k-th
\* (from 1) button named cta_url.
RECURSIVE positionOf(_, _, _)
positionOf(processedButtons, k, from) ==
    IF isCtaUrl(processedButtons[from])
    THEN IF k = 1 THEN from - 1 ELSE positionOf(processedButtons, k - 1, from + 1)
    ELSE positionOf(processedButtons, k, from + 1)

tapTargetListOf_UnfilteredIndex(processedButtons) ==
    LET urlButtons == urlButtonsOf(processedButtons)
    IN [k \in DOMAIN urlButtons |->
            tapTargetOf(urlButtons[k], positionOf(processedButtons, k, 1))]

tapTargetListOf(processedButtons) ==
    LET urlButtons == urlButtonsOf(processedButtons)
    IN [k \in DOMAIN urlButtons |-> tapTargetOf(urlButtons[k], k - 1)]

in_thread_buttons_limit == 3

\* const messageParamsJson = JSON.stringify({ ... })
messageParamsJsonOf_SecondOrNone(tapTargetList) ==
    JSONstringify(Obj(<<
        KV("bottom_sheet", Obj(<<KV("in_thread_buttons_limit", Num(in_thread_buttons_limit)),
                                 KV("divider_indices", Arr(<<>>))>>)),
        KV("tap_target_configuration",
           IF Len(tapTargetList) > 1 THEN tapTargetList[1] ELSE Obj(<<>>)),
        KV("tap_target_list", Arr(tapTargetList))>>))

messageParamsJsonOf(tapTargetList) ==
    JSONstringify(Obj(<<
        KV("bottom_sheet", Obj(<<KV("in_thread_buttons_limit", Num(in_thread_buttons_limit)),
                                 KV("divider_indices", Arr(<<>>))>>)),
        KV("tap_target_configuration",
           IF Len(tapTargetList) > 0 THEN tapTargetList[1] ELSE Obj(<<>>)),
        KV("tap_target_list", Arr(tapTargetList))>>))

\* { ...target, ...source }: the own properties of an object, in order; a
\* null, undefined, boolean or number source has none.
RECURSIVE SpreadEntries(_, _)
SpreadEntries(target, kv) ==
    IF kv = <<>> THEN target
    ELSE SpreadEntries(SetKey(target, Head(kv).k, Head(kv).v), Tail(kv))

Spread(target, source) ==
    IF IsObj(source) THEN SpreadEntries(target, source.kv) ELSE target

defaultContextInfo ==
    Obj(<<KV("dataSharingContext", Obj(<<KV("showMmDisclosure", Bool(FALSE))>>))>>)

\* contextInfo: { dataSharingContext: { showMmDisclosure: false }, ...contextInfo }
contextInfoOf_DefaultWins(contextInfo) ==
    Spread(Spread(Obj(<<>>), contextInfo), defaultContextInfo)

contextInfoOf(contextInfo) == Spread(defaultContextInfo, contextInfo)

\* if (imageMessage || title || subtitle) { interactiveMessage.header = ... }
withHeader_TitleAlways(m, imageMessage, title, subtitle) ==
    IF Truthy(imageMessage) \/ Truthy(title) \/ Truthy(subtitle)
    THEN LET h0 == Obj(<<KV("hasMediaAttachment", Bool(Truthy(imageMessage)))>>)
             h1 == IF Truthy(imageMessage) THEN SetKey(h0, "imageMessage", imageMessage) ELSE h0
             h2 == SetKey(h1, "title", title)
             h3 == IF Truthy(subtitle) THEN SetKey(h2, "subtitle", subtitle) ELSE h2
         IN SetKey(m, "header", h3)
    ELSE m

withHeader(m, imageMessage, title, subtitle) ==
    IF Truthy(imageMessage) \/ Truthy(title) \/ Truthy(subtitle)
    THEN LET h0 == Obj(<<KV("hasMediaAttachment", Bool(Truthy(imageMessage)))>>)
             h1 == IF Truthy(imageMessage) THEN SetKey(h0, "imageMessage", imageMessage) ELSE h0
             h2 == IF Truthy(title) THEN SetKey(h1, "title", title) ELSE h1
             h3 == IF Truthy(subtitle) THEN SetKey(h2, "subtitle", subtitle) ELSE h2
         IN SetKey(m, "header", h3)
    ELSE m

\* if (footerText) { interactiveMessage.footer = { text: footerText } }
withFooter(m, footerText) ==
    IF Truthy(footerText)
    THEN SetKey(m, "footer", Obj(<<KV("text", footerText)>>))
    ELSE m

\* The call throws a TypeError: destructuring undefined or null, buttons
\* without a map method, a property read on an undefined or null button,
\* or JSON.stringify meeting a BigInt.
throwsTypeError(o) ==
    \/ o \in {Undefined, Null}
    \/ ~IsArr(buttonsOf(o))
    \/ \E i \in DOMAIN buttonsOf(o).e : buttonsOf(o).e[i] \in {Undefined, Null}
    \/ \E i \in DOMAIN buttonsOf(o).e :
          /\ isUrlButton(buttonsOf(o).e[i])
          /\ ~Serializable(buttonParamsOf(buttonsOf(o).e[i]))

Returned(v, caught) == [threw |-> FALSE, value |-> v, caught |-> caught]

Thrown == [threw |-> TRUE, value |-> Undefined, caught |-> FALSE]

\* createIOSWebviewMessage(options): the returned object, or the throw;
\* caught records whether a catch branch of the tap target derivation ran.
createIOSWebviewMessage(o) ==
    IF throwsTypeError(o) THEN Thrown
    ELSE LET bodyText == Get(o, "bodyText")
             footerText == Get(o, "footerText")
             title == Get(o, "title")
             subtitle == Get(o, "subtitle")
             imageMessage == Get(o, "imageMessage")
             buttons == buttonsOf(o).e
             contextInfo == Default(Get(o, "contextInfo"), Obj(<<>>))
             processedButtons == processedButtonsOf(buttons)
             urlButtons == urlButtonsOf(processedButtons)
             tapTargetList == tapTargetListOf(processedButtons)
             messageParamsJson == messageParamsJsonOf(tapTargetList)
             interactiveMessage ==
                 Obj(<<KV("body", Obj(<<KV("text", bodyText)>>)),
                       KV("nativeFlowMessage",
                          Obj(<<KV("buttons", Arr(processedButtons)),
                                KV("messageParamsJson", messageParamsJson)>>)),
                       KV("contextInfo", contextInfoOf(contextInfo))>>)
         IN Returned(
                Obj(<<KV("interactiveMessage",
                         withFooter(withHeader(interactiveMessage, imageMessage, title, subtitle),
                                    footerText))>>),
                \E k \in DOMAIN urlButtons : parseFails(urlButtons[k]))

\* ------------------------------------------------------------ inputs

\* Marks a property the caller does not supply.
Absent == [t |-> "absent"]

isSupplied(e) == e.v # Absent

\* An object literal with the supplied properties only.
Literal(kv) == Obj(SelectSeq(kv, isSupplied))

urlX == Str("https://x.com")

urlL == Str("https://l.com")

\* A string that is not valid JSON.
malformedJson == Text(<<Punct("{"), WordTok("oops")>>)

\* The JSON text {"url":"https://pre.com"}.
suppliedJson ==
    Text(<<Punct("{"), StrTok(Str("url")), Punct(":"), StrTok(Str("https://pre.com")), Punct("}")>>)

\* Raw webview descriptors handed to createIOSWebviewMessage directly.
WebviewDescriptors ==
    { Obj(<<KV("type", Str("webview")), KV("text", Str("Go")), KV("url", urlX)>>),
      Obj(<<KV("type", Str("webview")), KV("text", Str("Go")), KV("url", urlX),
            KV("paymentLinkPreview", Bool(FALSE)), KV("webviewInteraction", Bool(FALSE))>>),
      Obj(<<KV("type", Str("webview"))>>),
      Obj(<<KV("type", Str("webview")), KV("displayText", Str("Pay")), KV("text", Str("Go")),
            KV("url", Str("")), KV("landingPageUrl", urlL),
            KV("paymentLinkPreview", Bool(TRUE)), KV("webviewInteraction", Bool(TRUE)),
            KV("webviewPresentation", Str("full"))>>) }

\* Descriptors named cta_url that bring a buttonParamsJson of their own.
CtaUrlDescriptors ==
    { Obj(<<KV("name", Str("cta_url")), KV("buttonParamsJson", malformedJson)>>),
      Obj(<<KV("name", Str("cta_url")), KV("url", urlX), KV("buttonParamsJson", malformedJson)>>),
      Obj(<<KV("name", Str("cta_url")), KV("buttonParamsJson", suppliedJson)>>) }

\* Buttons of another kind.
OtherDescriptors ==
    { Obj(<<KV("name", Str("quick_reply")), KV("buttonParamsJson", suppliedJson)>>) }

\* Elements no button object can be: a null, and a descriptor holding a BigInt.
BadElements ==
    { Null,
      Obj(<<KV("type", Str("webview")), KV("url", urlX), KV("webviewPresentation", BigInt(1))>>) }

RawButtons == WebviewDescriptors \cup CtaUrlDescriptors \cup OtherDescriptors \cup BadElements

\* Options given to createWebviewButton.
FactoryOptions ==
    { Obj(<<KV("text", Str("Go")), KV("url", urlX)>>),
      Obj(<<KV("text", Str("Go")), KV("url", urlX),
            KV("webviewInteraction", Bool(FALSE)), KV("paymentLinkPreview", Bool(TRUE))>>),
      Obj(<<KV("text", Str("Go")), KV("url", urlX), KV("landingPageUrl", urlL),
            KV("paymentLinkPreview", Bool(FALSE)), KV("webviewInteraction", Bool(TRUE)),
            KV("webviewPresentation", Str("full"))>>) }

anImage == Obj(<<KV("url", Str("https://img"))>>)

ContextInfos ==
    { Absent,
      Obj(<<KV("mentionedJid", Str("jid"))>>),
      Obj(<<KV("mentionedJid", Str("jid")),
            KV("dataSharingContext", Obj(<<KV("showMmDisclosure", Bool(TRUE))>>))>>) }

Options(bodyText, footerText, title, subtitle, imageMessage, buttons, contextInfo) ==
    Literal(<<KV("bodyText", bodyText), KV("footerText", footerText), KV("title", title),
              KV("subtitle", subtitle), KV("imageMessage", imageMessage),
              KV("buttons", buttons), KV("contextInfo", contextInfo)>>)

\* The options the caller starts from, before it adds buttons: every header,
\* every body, footer and context, every way to give no buttons, and no
\* options at all.
InitialOptions ==
    { Options(Str("Hi"), Absent, title, subtitle, imageMessage, Arr(<<>>), Absent) :
        title \in {Absent, Str(""), Str("T")},
        subtitle \in {Absent, Str("S")},
        imageMessage \in {Absent, anImage} }
    \cup
    { Options(bodyText, footerText, Absent, Absent, Absent, Arr(<<>>), contextInfo) :
        bodyText \in {Absent, Str("Hi")},
        footerText \in {Absent, Str("F")},
        contextInfo \in ContextInfos }
    \cup
    { Options(Str("Hi"), Absent, Str("T"), Absent, Absent, buttons, Absent) :
        buttons \in {Absent, Null} }
    \cup {Undefined}

\* ------------------------------------------------------------ the caller

NoResult == [threw |-> FALSE, value |-> Undefined, caught |-> FALSE]

Init ==
    /\ pc = "build"
    /\ options \in InitialOptions
    /\ made = <<>>
    /\ result = NoResult

canPush ==
    /\ pc = "build"
    /\ IsObj(options)
    /\ IsArr(Get(options, "buttons"))
    /\ Len(Get(options, "buttons").e) < MaxButtons

\* options.buttons.push(b), b written out by the caller.
PushButton(b) ==
    /\ canPush
    /\ options' = SetKey(options, "buttons", Arr(Append(Get(options, "buttons").e, b)))
    /\ made' = Append(made, Undefined)
    /\ UNCHANGED <<pc, result>>

\* options.buttons.push(createWebviewButton(o))
PushWebviewButton(o) ==
    /\ canPush
    /\ options' = SetKey(options, "buttons",
                         Arr(Append(Get(options, "buttons").e, createWebviewButton(o))))
    /\ made' = Append(made, o)
    /\ UNCHANGED <<pc, result>>

\* createIOSWebviewMessage(options)
Call ==
    /\ pc = "build"
    /\ result' = createIOSWebviewMessage(options)
    /\ pc' = "done"
    /\ UNCHANGED <<options, made>>

Next ==
    \/ \E b \in RawButtons : PushButton(b)
    \/ \E o \in FactoryOptions : PushWebviewButton(o)
    \/ Call

Spec == Init /\ [][Next]_vars

\* ------------------------------------------------------------ properties

Returned_ == pc = "done" /\ ~result.threw

\* What the caller passed.
inButtons ==
    IF HasKey(options, "buttons") /\ IsArr(Get(options, "buttons"))
    THEN Get(options, "buttons").e
    ELSE <<>>

\* What the call returned.
outMessage == Get(result.value, "interactiveMessage")

outFlow == Get(outMessage, "nativeFlowMessage")

outButtons == Get(outFlow, "buttons").e

outParams == JSONparse(Get(outFlow, "messageParamsJson"))

outTapTargets == Get(outParams.v, "tap_target_list").e

Webview == Str("webview")

CtaUrl == Str("cta_url")

NamedCtaUrl(b) == Get(b, "name") = CtaUrl

ToNormalize(b) == Get(b, "type") = Webview \/ Get(b, "name") = CtaUrl

\* The params encoded in output button i.
ParamsOfOut(i) == JSONparse(Get(outButtons[i], "buttonParamsJson"))

\* How many of output buttons 1..i are named cta_url.
CtaRank(i) == Cardinality({j \in 1..i : NamedCtaUrl(outButtons[j])})

ParamKeys ==
    {"display_text", "url", "webview_presentation", "payment_link_preview",
     "landing_page_url", "webview_interaction"}

\* C1: the output buttons have the length and order of the input; position
\* i holds exactly {name: "cta_url", buttonParamsJson} when input button i
\* has type "webview" or name "cta_url", and input button i itself otherwise.
C1_ButtonsNormalizedInOrder ==
    Returned_ =>
        /\ Len(outButtons) = Len(inButtons)
        /\ \A i \in DOMAIN inButtons :
              IF ToNormalize(inButtons[i])
              THEN /\ IsObj(outButtons[i])
                   /\ Keys(outButtons[i]) = {"name", "buttonParamsJson"}
                   /\ Len(outButtons[i].kv) = 2
                   /\ Get(outButtons[i], "name") = CtaUrl
              ELSE outButtons[i] = inButtons[i]

C1_Witness ==
    /\ Returned_
    /\ Len(inButtons) = 2
    /\ Get(inButtons[1], "name") = Str("quick_reply")
    /\ outButtons[1] = inButtons[1]
    /\ Get(inButtons[2], "name") = CtaUrl
    /\ HasKey(inButtons[2], "url")
    /\ Keys(outButtons[2]) = {"name", "buttonParamsJson"}

\* C2: a button of type "webview" comes out named "cta_url" with a
\* buttonParamsJson that parses, to a url equal to the button's url and,
\* when no landingPageUrl was given, to a landing_page_url equal to that url.
C2_WebviewRoundTrips ==
    Returned_ =>
        \A i \in DOMAIN inButtons :
            Get(inButtons[i], "type") = Webview =>
                LET parsed == ParamsOfOut(i) IN
                /\ Get(outButtons[i], "name") = CtaUrl
                /\ parsed.ok
                /\ Get(parsed.v, "url") = Get(inButtons[i], "url")
                /\ Get(inButtons[i], "landingPageUrl") = Undefined =>
                       Get(parsed.v, "landing_page_url") = Get(inButtons[i], "url")

C2_Witness ==
    /\ Returned_
    /\ \E i \in DOMAIN inButtons :
          /\ inButtons[i] =
                Obj(<<KV("type", Webview), KV("text", Str("Go")), KV("url", urlX)>>)
          /\ Get(outButtons[i], "name") = CtaUrl
          /\ Get(ParamsOfOut(i).v, "url") = urlX
          /\ Get(ParamsOfOut(i).v, "landing_page_url") = urlX
          /\ Get(ParamsOfOut(i).v, "webview_interaction") = Bool(TRUE)
          /\ Get(ParamsOfOut(i).v, "payment_link_preview") = Bool(FALSE)

\* The value a flag has in the params: the supplied one, or d when absent.
Preserved(supplied, d) == IF supplied = Undefined THEN Bool(d) ELSE supplied

\* C3: in the params of a normalized button, payment_link_preview is the
\* descriptor's paymentLinkPreview and webview_interaction its
\* webviewInteraction, explicit false included; false and true stand in only
\* for an absent field.  The same holds of the options given to
\* createWebviewButton when the descriptor was built by it.
C3_FlagsDefaultOnlyWhenAbsent ==
    Returned_ =>
        \A i \in DOMAIN inButtons :
            ToNormalize(inButtons[i]) =>
                LET parsed == ParamsOfOut(i) IN
                /\ parsed.ok
                /\ Get(parsed.v, "payment_link_preview")
                      = Preserved(Get(inButtons[i], "paymentLinkPreview"), FALSE)
                /\ Get(parsed.v, "webview_interaction")
                      = Preserved(Get(inButtons[i], "webviewInteraction"), TRUE)
                /\ made[i] # Undefined =>
                      /\ Get(parsed.v, "payment_link_preview")
                            = Preserved(Get(made[i], "paymentLinkPreview"), FALSE)
                      /\ Get(parsed.v, "webview_interaction")
                            = Preserved(Get(made[i], "webviewInteraction"), TRUE)

C3_Witness ==
    /\ Returned_
    /\ Len(inButtons) = 2
    /\ made[1] = Undefined
    /\ Get(inButtons[1], "webviewInteraction") = Bool(FALSE)
    /\ Get(inButtons[1], "paymentLinkPreview") = Bool(FALSE)
    /\ Get(ParamsOfOut(1).v, "webview_interaction") = Bool(FALSE)
    /\ Get(ParamsOfOut(1).v, "payment_link_preview") = Bool(FALSE)
    /\ made[2] # Undefined
    /\ Get(made[2], "webviewInteraction") = Bool(FALSE)
    /\ ~HasKey(made[2], "landingPageUrl")
    /\ Get(ParamsOfOut(2).v, "webview_interaction") = Bool(FALSE)
    /\ Get(ParamsOfOut(2).v, "payment_link_preview") = Bool(TRUE)

\* The output buttons named cta_url, in order.
outUrlButtons == SelectSeq(outButtons, NamedCtaUrl)

C5_ConfigurationIsFirstTarget ==
    Returned_ =>
        LET parsed == outParams
            list == Get(parsed.v, "tap_target_list").e
            configuration == Get(parsed.v, "tap_target_configuration")
        IN /\ parsed.ok
           /\ HasKey(parsed.v, "tap_target_configuration")
           /\ configuration = (IF Len(list) > 0 THEN list[1] ELSE Obj(<<>>))
           /\ Len(outUrlButtons) = 0 => configuration = Obj(<<>>)

C5_Witness ==
    /\ Returned_
    /\ Len(outUrlButtons) = 1
    /\ Len(outButtons) = 2
    /\ Get(outParams.v, "tap_target_configuration") = outTapTargets[1]
    /\ Get(Get(outParams.v, "tap_target_configuration"), "canonical_url") = urlX

\* A header field is copied exactly when its input is truthy.
HeaderCopies(k) ==
    /\ HasKey(Get(outMessage, "header"), k) <=> Truthy(Get(options, k))
    /\ Truthy(Get(options, k)) => Get(Get(outMessage, "header"), k) = Get(options, k)

\* C6: the message has a header exactly when imageMessage, title or
\* subtitle is truthy; then hasMediaAttachment is true exactly when
\* imageMessage is truthy, and imageMessage, title and subtitle are each in
\* the header exactly when the input is truthy.
C6_HeaderIffTruthyField ==
    Returned_ =>
        /\ HasKey(outMessage, "header") <=>
              \/ Truthy(Get(options, "imageMessage"))
              \/ Truthy(Get(options, "title"))
              \/ Truthy(Get(options, "subtitle"))
        /\ HasKey(outMessage, "header") =>
              /\ Get(Get(outMessage, "header"), "hasMediaAttachment")
                    = Bool(Truthy(Get(options, "imageMessage")))
              /\ HeaderCopies("imageMessage")
              /\ HeaderCopies("title")
              /\ HeaderCopies("subtitle")
              /\ Keys(Get(outMessage, "header"))
                    \subseteq {"hasMediaAttachment", "imageMessage", "title", "subtitle"}

C6_Witness ==
    /\ Returned_
    /\ Get(options, "title") = Str("")
    /\ Get(options, "subtitle") = Str("S")
    /\ ~HasKey(options, "imageMessage")
    /\ Keys(Get(outMessage, "header")) = {"hasMediaAttachment", "subtitle"}
    /\ Get(Get(outMessage, "header"), "hasMediaAttachment") = Bool(FALSE)

\* Input button i is named cta_url and brings a buttonParamsJson that is
\* not valid JSON.
MalformedCtaUrl(i) ==
    /\ Get(inButtons[i], "name") = CtaUrl
    /\ HasKey(inButtons[i], "buttonParamsJson")
    /\ ~JSONparse(Get(inButtons[i], "buttonParamsJson")).ok

\* The tap target derived from output button i.
TapTargetOfOut(i) == outTapTargets[CtaRank(i)]

\* Options the documentation describes: an object whose buttons, when
\* given, are an array of objects with string, boolean, null or absent
\* fields.
Usable ==
    /\ IsObj(options)
    /\ HasKey(options, "buttons") => IsArr(Get(options, "buttons"))
    /\ \A i \in DOMAIN inButtons :
          /\ IsObj(inButtons[i])
          /\ \A j \in DOMAIN inButtons[i].kv :
                inButtons[i].kv[j].v.t \in {"str", "text", "bool", "null", "undefined"}

\* C7 as stated: a cta_url button with a malformed buttonParamsJson gets a
\* tap target whose canonical_url is the empty string.
C7_MalformedGivesEmptyUrl ==
    Returned_ =>
        \A i \in DOMAIN inButtons :
            MalformedCtaUrl(i) => Get(TapTargetOfOut(i), "canonical_url") = Str("")

\* C7 amended: such a button does not make the call throw, its
\* buttonParamsJson is not read, and its tap target has as canonical_url the
\* descriptor's own url, else its landingPageUrl, else the empty string.
C7_MalformedIgnored ==
    /\ (pc = "done" /\ Usable /\ \E i \in DOMAIN inButtons : MalformedCtaUrl(i))
          => ~result.threw
    /\ Returned_ =>
          \A i \in DOMAIN inButtons :
              MalformedCtaUrl(i) =>
                  Get(TapTargetOfOut(i), "canonical_url") =
                      Or(Or(Get(inButtons[i], "url"), Get(inButtons[i], "landingPageUrl")),
                         Str(""))

C7_Witness ==
    /\ Returned_
    /\ Len(inButtons) = 2
    /\ MalformedCtaUrl(1)
    /\ MalformedCtaUrl(2)
    /\ Get(inButtons[1], "url") = urlX
    /\ ~HasKey(inButtons[2], "url")
    /\ Get(outTapTargets[1], "canonical_url") = urlX
    /\ Get(outTapTargets[2], "canonical_url") = Str("")

\* C8 as stated: the call raises no exception, whatever the input.
C8_NeverThrows == pc = "done" => ~result.threw

\* Inputs on which the call throws a TypeError.
Unusable ==
    \/ options \in {Undefined, Null}
    \/ HasKey(options, "buttons") /\ Get(options, "buttons").t \notin {"arr", "undefined"}
    \/ \E i \in DOMAIN inButtons : inButtons[i] \in {Undefined, Null}
    \/ \E i \in DOMAIN inButtons :
          /\ ToNormalize(inButtons[i])
          /\ Get(inButtons[i], "webviewPresentation").t = "bigint"
          /\ Get(inButtons[i], "webviewPresentation").n # 0

\* C8 amended: the call validates nothing; it raises an exception when
\* options is undefined or null, when buttons is given and is no array, when
\* an element of buttons is undefined or null, and when a value
\* JSON.stringify rejects reaches the params of a button to normalize.  On
\* an options object whose buttons, if given, are an array of objects with
\* string, boolean, null or absent fields, a message is returned, with
\* body.text the bodyText given, undefined when it is missing.
C8_ThrowsOnlyOnUnusableInput ==
    pc = "done" =>
        /\ Unusable => result.threw
        /\ Usable =>
              /\ ~result.threw
              /\ IsObj(outMessage)
              /\ HasKey(Get(outMessage, "body"), "text")
              /\ Get(Get(outMessage, "body"), "text") = Get(options, "bodyText")
        /\ Usable \/ Unusable

C8_Witness ==
    /\ Returned_
    /\ ~HasKey(options, "bodyText")
    /\ Len(inButtons) = 2
    /\ Get(inButtons[1], "name") = Str("quick_reply")
    /\ HasKey(Get(outMessage, "body"), "text")
    /\ Get(Get(outMessage, "body"), "text") = Undefined

\* The caller's contextInfo, an empty object when omitted.
callerContext == Default(Get(options, "contextInfo"), Obj(<<>>))

disclosureOff == Obj(<<KV("showMmDisclosure", Bool(FALSE))>>)

\* C9: the output contextInfo has the key dataSharingContext and the
\* caller's keys and no other; every caller key has the caller's value;
\* dataSharingContext is {showMmDisclosure: false} exactly when the caller
\* gave no dataSharingContext (or gave that very value).
C9_ContextInfoCallerWins ==
    Returned_ =>
        LET out == Get(outMessage, "contextInfo") IN
        /\ IsObj(out)
        /\ Keys(out) = {"dataSharingContext"} \cup Keys(callerContext)
        /\ \A k \in Keys(callerContext) : Get(out, k) = Get(callerContext, k)
        /\ Get(out, "dataSharingContext") = disclosureOff <=>
              \/ ~HasKey(callerContext, "dataSharingContext")
              \/ Get(callerContext, "dataSharingContext") = disclosureOff

C9_Witness ==
    /\ Returned_
    /\ HasKey(options, "contextInfo")
    /\ Get(Get(options, "contextInfo"), "dataSharingContext")
          = Obj(<<KV("showMmDisclosure", Bool(TRUE))>>)
    /\ Get(Get(outMessage, "contextInfo"), "dataSharingContext")
          = Obj(<<KV("showMmDisclosure", Bool(TRUE))>>)
    /\ Get(Get(outMessage, "contextInfo"), "mentionedJid") = Str("jid")

\* C10: every output button named "cta_url" carries a buttonParamsJson that
\* parses, whose fields are those of the params and come from the
\* descriptor's own fields, whatever buttonParamsJson the descriptor
\* brought; the tap target derivation never takes its catch branch.
C10_ParamsAlwaysFresh ==
    Returned_ =>
        /\ ~result.caught
        /\ \A i \in DOMAIN outButtons :
              NamedCtaUrl(outButtons[i]) =>
                  LET parsed == ParamsOfOut(i)
                      given == inButtons[i]
                  IN /\ parsed.ok
                     /\ IsObj(parsed.v)
                     /\ Keys(parsed.v) \subseteq ParamKeys
                     /\ Get(parsed.v, "url") = Get(given, "url")
                     /\ Get(parsed.v, "display_text")
                           = Or(Get(given, "displayText"), Get(given, "text"))
                     /\ Get(parsed.v, "landing_page_url")
                           = Or(Get(given, "landingPageUrl"), Get(given, "url"))
                     /\ Get(parsed.v, "webview_presentation")
                           = Or(Get(given, "webviewPresentation"), Null)

C10_Witness ==
    /\ Returned_
    /\ Len(inButtons) = 2
    /\ Get(inButtons[1], "buttonParamsJson") = malformedJson
    /\ Get(inButtons[2], "buttonParamsJson") = suppliedJson
    /\ NamedCtaUrl(inButtons[2])
    /\ NamedCtaUrl(outButtons[1])
    /\ ParamsOfOut(1).ok
    /\ ~HasKey(ParamsOfOut(2).v, "url")

====
